---- MODULE Spec2Model ----
(***************************************************************************)
(* Model of three parts of the repository:                                 *)
(*   - the rpcdaemon /health endpoint (package health),                    *)
(*   - the Sentinel's outbound ping exchange (pingRequest),                *)
(*   - the Sentinel's startup and accessors (createListener, Start,        *)
(*     RecvGossip, GetPeersCount).                                         *)
(* Go strings that the code parses are modelled as sequences of            *)
(* one-character strings, so that prefix tests, case folding and integer   *)
(* parsing are computed and not assumed.                                   *)
(***************************************************************************)
EXTENDS Integers, Sequences, FiniteSets, TLC

VARIABLES
    req,        \* the HTTP request being served, NoReq when the server is idle
    resp,       \* what the handler wrote to the http.ResponseWriter
    ping,       \* the running pingRequest call (its locals and position)
    net,        \* the libp2p host / codec side of pingRequest: streams, log
    sen,        \* the Sentinel's fields and the position of a running Start
    world       \* what the Sentinel's Start touches outside itself

vars == <<req, resp, ping, net, sen, world>>

(***************************************************************************)
(* Bounds of the model.                                                    *)
(***************************************************************************)
MaxHeaders == 2      \* X-ERIGON-HEALTHCHECK values carried by one request
MaxPeers == 3        \* peers the net API may report
MaxBlock == 2        \* number of the latest block the eth API knows

(***************************************************************************)
(* Strings as character sequences.                                         *)
(***************************************************************************)
sSynced == <<"s","y","n","c","e","d">>
sSyncedUpper == <<"S","Y","N","C","E","D">>
sCheckBlock == <<"c","h","e","c","k","_","b","l","o","c","k">>
sMinPeerCount == <<"m","i","n","_","p","e","e","r","_","c","o","u","n","t">>
sMaxSecondsBehind ==
    <<"m","a","x","_","s","e","c","o","n","d","s","_","b","e","h","i","n","d">>
sOther == <<"f","o","o">>

urlPath == <<"/","h","e","a","l","t","h">>
urlPathUpper == <<"/","H","E","A","L","T","H">>
rootPath == <<"/">>

\* strings.ToLower, on the letters the model's inputs use
LowerChar(c) ==
    CASE c = "S" -> "s" [] c = "Y" -> "y" [] c = "N" -> "n" [] c = "C" -> "c"
      [] c = "E" -> "e" [] c = "D" -> "d" [] c = "H" -> "h" [] c = "A" -> "a"
      [] c = "L" -> "l" [] c = "T" -> "t" [] OTHER -> c

ToLower(s) == [i \in 1..Len(s) |-> LowerChar(s[i])]

\* strings.EqualFold (simple case folding; the inputs are ASCII)
EqualFold(s, t) == ToLower(s) = ToLower(t)

HasPrefix(s, p) == Len(s) >= Len(p) /\ SubSeq(s, 1, Len(p)) = p

TrimPrefix(s, p) == IF HasPrefix(s, p) THEN SubSeq(s, Len(p) + 1, Len(s)) ELSE s

(***************************************************************************)
(* Errors are strings; nil is the absence of an error.                     *)
(***************************************************************************)
nil == "nil"
errCheckDisabled == "error check disabled"

IsDigit(c) == c \in {"0","1","2","3","4","5","6","7","8","9"}

DigitVal(c) ==
    CASE c = "0" -> 0 [] c = "1" -> 1 [] c = "2" -> 2 [] c = "3" -> 3
      [] c = "4" -> 4 [] c = "5" -> 5 [] c = "6" -> 6 [] c = "7" -> 7
      [] c = "8" -> 8 [] c = "9" -> 9 [] OTHER -> 0

RECURSIVE ParseDigits(_, _)
ParseDigits(s, acc) ==
    IF s = <<>> THEN acc ELSE ParseDigits(Tail(s), acc * 10 + DigitVal(Head(s)))

\* strconv.Atoi: an optional sign, then at least one digit and only digits
Atoi(s) ==
    LET signed == s # <<>> /\ Head(s) \in {"-", "+"}
        digits == IF signed THEN Tail(s) ELSE s
    IN  IF digits = <<>> \/ \E i \in 1..Len(digits) : ~IsDigit(digits[i])
        THEN [err |-> "strconv.Atoi: invalid syntax", val |-> 0]
        ELSE [err |-> nil,
              val |-> IF signed /\ Head(s) = "-"
                      THEN 0 - ParseDigits(digits, 0)
                      ELSE ParseDigits(digits, 0)]

(***************************************************************************)
(* The /health endpoint.                                                   *)
(***************************************************************************)
StatusOK == 200
StatusInternalServerError == 500
DefaultSecondsBehind == 600
Now == 1000          \* time.Now().Unix() at the request

\* What the rpc APIs answer while a request is served.
\*   peerCount : net_peerCount
\*   latest    : number of the latest block
\*   syncing   : eth_syncing: "false", "progress" (a progress object) or "err"
\*   block     : eth_getBlockByNumber(latest): an rpc error, or the block's
\*               fields: "timestamp" absent, present with another dynamic
\*               type than uint64, or a uint64
BlockAges == {0, 3, 700}

BlockAnswers ==
    { [err |-> TRUE, has |-> FALSE, typed |-> FALSE, ts |-> 0],
      [err |-> FALSE, has |-> FALSE, typed |-> FALSE, ts |-> 0] }
    \cup { [err |-> FALSE, has |-> TRUE, typed |-> FALSE, ts |-> Now] }
    \cup { [err |-> FALSE, has |-> TRUE, typed |-> TRUE, ts |-> Now - a] :
             a \in BlockAges }

Envs ==
    [peerCount : 0..MaxPeers, latest : 0..MaxBlock,
     syncing : {"false", "progress", "err"}, block : BlockAnswers]

\* checkMinPeers(minPeerCount uint, api): the peer count meets the minimum.
\* minPeers is the int the caller converts with uint(): a negative int wraps
\* to a value above every peer count.
checkMinPeers(minPeers, env) ==
    IF minPeers < 0 \/ env.peerCount < minPeers
    THEN "not enough peers"
    ELSE nil

\* checkBlockNumber(blockNumber, api): the node knows the block.
checkBlockNumber(blockNumber, env) ==
    IF blockNumber > env.latest THEN "no known block with that number" ELSE nil

processSyncedCheck(env) ==
    IF env.syncing = "err" THEN "eth_syncing failed"
    ELSE IF env.syncing = "false" THEN nil
    ELSE "not synced"

processTimeCheck(seconds, env) ==
    IF env.block.err THEN "eth_getBlockByNumber failed"
    ELSE LET timestamp == IF env.block.has /\ env.block.typed
                          THEN env.block.ts ELSE 0
         IN  IF timestamp > seconds THEN "got ts, need" ELSE nil

\* One iteration of the loop of ProcessHealthcheck2: the error it returns
\* with, or nil when the loop goes on.
CheckHeader(value, env) ==
    LET header == ToLower(value)
        e1 == IF header = sSynced THEN processSyncedCheck(env) ELSE nil
        e2 == IF HasPrefix(header, sCheckBlock)
              THEN LET a == Atoi(TrimPrefix(header, sCheckBlock))
                   IN  IF a.err # nil THEN a.err
                       ELSE checkBlockNumber(a.val, env)
              ELSE nil
        e3 == IF HasPrefix(header, sMinPeerCount)
              THEN LET a == Atoi(TrimPrefix(header, sMinPeerCount))
                   IN  IF a.err # nil THEN a.err
                       ELSE checkMinPeers(a.val, env)
              ELSE nil
        e4 == IF HasPrefix(header, sMaxSecondsBehind)
              THEN LET a == Atoi(TrimPrefix(header, sMaxSecondsBehind))
                       secs == IF a.val < 0 THEN DefaultSecondsBehind ELSE a.val
                   IN  IF a.err # nil THEN a.err
                       ELSE processTimeCheck(Now - secs, env)
              ELSE nil
    IN  IF e1 # nil THEN e1
        ELSE IF e2 # nil THEN e2
        ELSE IF e3 # nil THEN e3
        ELSE e4

RECURSIVE ProcessHealthcheck2(_, _)
ProcessHealthcheck2(headers, env) ==
    IF headers = <<>> THEN nil
    ELSE LET err == CheckHeader(Head(headers), env)
         IN  IF err # nil THEN err
             ELSE ProcessHealthcheck2(Tail(headers), env)

\* The request body, as io.ReadAll and json.Unmarshal see it: empty (a GET),
\* not JSON, or an object. Each of the object's two fields is absent (or
\* null), a number, or a value that does not fit the field's type.
Absent == [k |-> "none", v |-> 0]
Unfit == [k |-> "bad", v |-> 0]
Num(n) == [k |-> "num", v |-> n]

EmptyBody == [kind |-> "empty", min_peer_count |-> Absent, known_block |-> Absent]

Bodies ==
    { EmptyBody, [kind |-> "invalid", min_peer_count |-> Absent, known_block |-> Absent] }
    \cup [kind : {"object"},
          min_peer_count : {Absent, Unfit} \cup { Num(n) : n \in 0..MaxPeers },
          known_block : {Absent} \cup { Num(n) : n \in 0..MaxBlock + 1 }]

\* The parsed body: err, and the two pointer fields (nil pointer: Absent).
parseHealthCheckBody(body) ==
    IF body.kind = "empty"
    THEN [err |-> "unexpected end of JSON input",
          MinPeerCount |-> Absent, BlockNumber |-> Absent]
    ELSE IF body.kind = "invalid"
    THEN [err |-> "invalid character", MinPeerCount |-> Absent, BlockNumber |-> Absent]
    ELSE IF body.min_peer_count = Unfit \/ body.known_block = Unfit
    THEN [err |-> "json: cannot unmarshal into Go struct field",
          MinPeerCount |-> Absent, BlockNumber |-> Absent]
    ELSE [err |-> nil, MinPeerCount |-> body.min_peer_count,
          BlockNumber |-> body.known_block]

shouldChangeStatusCode_Strict(err) == err # nil

shouldChangeStatusCode(err) == err # nil /\ err # errCheckDisabled

errorStringOrOK(err) ==
    IF err = nil THEN <<"HEALTHY">>
    ELSE IF err = errCheckDisabled THEN <<"DISABLED">>
    ELSE <<"ERROR: ", err>>

reportHealth(errParse, errMinPeerCount, errCheckBlock) ==
    LET statusCode ==
            IF shouldChangeStatusCode(errParse)
               \/ shouldChangeStatusCode(errMinPeerCount)
               \/ shouldChangeStatusCode(errCheckBlock)
            THEN StatusInternalServerError
            ELSE StatusOK
    IN  [written |-> TRUE, status |-> statusCode,
         body |-> [shape |-> "json",
                   text |-> <<>>,
                   fields |-> [healthcheck_query |-> errorStringOrOK(errParse),
                               min_peer_count |-> errorStringOrOK(errMinPeerCount),
                               check_block |-> errorStringOrOK(errCheckBlock)]]]

NoFields == [healthcheck_query |-> <<>>, min_peer_count |-> <<>>, check_block |-> <<>>]

NoResp == [written |-> FALSE, status |-> 0,
           body |-> [shape |-> "none", text |-> <<>>, fields |-> NoFields]]

\* r.Header.Get: the first value of the header, "" when there is none
HeaderGet(headers) == IF headers = <<>> THEN <<>> ELSE Head(headers)

ProcessHealthcheckIfNeeded(r) ==
    IF ~EqualFold(r.path, urlPath) THEN NoResp
    ELSE IF HeaderGet(r.headers) # <<>>
    THEN LET err == ProcessHealthcheck2(r.headers, r.env)
         IN  [written |-> TRUE,
              status |-> IF err # nil THEN StatusInternalServerError ELSE StatusOK,
              body |-> [shape |-> "text", text |-> errorStringOrOK(err),
                        fields |-> NoFields]]
    ELSE LET parsed == parseHealthCheckBody(r.body)
             errMinPeerCount ==
                 IF parsed.err = nil /\ parsed.MinPeerCount # Absent
                 THEN checkMinPeers(parsed.MinPeerCount.v, r.env)
                 ELSE errCheckDisabled
             errCheckBlock ==
                 IF parsed.err = nil /\ parsed.BlockNumber # Absent
                 THEN checkBlockNumber(parsed.BlockNumber.v, r.env)
                 ELSE errCheckDisabled
         IN  reportHealth(parsed.err, errMinPeerCount, errCheckBlock)

\* The header values and requests the model serves.
HeaderValues ==
    { <<>>, sOther, sSynced, sSyncedUpper,
      sCheckBlock \o <<"2">>, sCheckBlock \o <<"x">>,
      sMinPeerCount \o <<"5">>, sMinPeerCount \o <<"2">>,
      sMinPeerCount \o <<"-","1">>,
      sMaxSecondsBehind \o <<"5">>, sMaxSecondsBehind \o <<"-","1">> }

HeaderSeqs == UNION { [1..n -> HeaderValues] : n \in 0..MaxHeaders }

\* A request carries headers or a body or neither; other paths than /health
\* are served with neither.
Requests ==
    [path : {urlPath}, headers : HeaderSeqs \ {<<>>}, body : {EmptyBody}]
    \cup [path : {urlPath, urlPathUpper}, headers : {<<>>}, body : Bodies]
    \cup [path : {rootPath}, headers : {<<>>}, body : {EmptyBody}]

NoEnv == [peerCount |-> 0, latest |-> 0, syncing |-> "false",
          block |-> [err |-> TRUE, has |-> FALSE, typed |-> FALSE, ts |-> 0]]

NoReq == [stage |-> "idle", path |-> <<>>, headers |-> <<>>, body |-> EmptyBody,
          env |-> NoEnv]

\* A request arrives; env is what the node's rpc APIs answer while it is
\* served.
AcceptRequest ==
    /\ req.stage = "idle"
    /\ \E e \in Envs : req' = [NoReq EXCEPT !.stage = "accepted", !.env = e]
    /\ resp' = NoResp
    /\ UNCHANGED <<ping, net, sen, world>>

\* The http server hands the request to the handler, which answers it.
ServeHTTP ==
    /\ req.stage = "accepted"
    /\ \E r \in Requests :
         LET full == [stage |-> "served", path |-> r.path, headers |-> r.headers,
                      body |-> r.body, env |-> req.env]
         IN  /\ req' = full
             /\ resp' = ProcessHealthcheckIfNeeded(full)
    /\ UNCHANGED <<ping, net, sen, world>>

\* The response is sent and the server waits for the next request.
FinishRequest ==
    /\ req.stage = "served"
    /\ req' = NoReq
    /\ resp' = NoResp
    /\ UNCHANGED <<ping, net, sen, world>>

(***************************************************************************)
(* The outbound ping exchange, pingRequest.                                *)
(*                                                                         *)
(* ping holds the call's locals and its position; net holds what the call  *)
(* touches outside itself: the streams the host opened and closed, and     *)
(* what the peer answers.  Each step's outcome (the error, the byte count, *)
(* the status byte) is the callee's and is chosen freely.                  *)
(***************************************************************************)
MaxPings == 2        \* calls of pingRequest
MaxStatus == 2       \* largest response status byte a peer sends
PingId == 1          \* pingPacket.Id
PingPacketSize == 8  \* the size WritePacket must report

PingIdle ==
    [pc |-> "idle", calls |-> 0, deferred |-> FALSE, code |-> 0, rpingId |-> 0,
     steps |-> <<>>, failed |-> {}, log |-> <<>>]

NetIdle == [opened |-> 0, closed |-> 0, status |-> 0, echo |-> 0]

\* The deferred calls of the function run when it returns: stream.Close()
RunDeferred_Forgotten(p, n) == n

RunDeferred(p, n) ==
    IF p.deferred THEN [n EXCEPT !.closed = @ + 1] ELSE n

\* return: the deferred calls run and the call is over
Return(p, n) ==
    /\ ping' = [p EXCEPT !.pc = "idle", !.deferred = FALSE]
    /\ net' = RunDeferred(p, n)

\* step `name` was performed and went well (ok) or failed
Did(p, name, ok) ==
    [p EXCEPT !.steps = Append(@, name),
              !.failed = IF ok THEN @ ELSE @ \cup {name}]

Logged(p, msg) == [p EXCEPT !.log = Append(@, msg)]

\* pingRequest is called: pingPacket := &p2p.Ping{Id: 1}. The peer that will
\* be asked answers a status byte and echoes the id it was sent.
PingCall ==
    /\ ping.pc = "idle"
    /\ ping.calls < MaxPings
    /\ \E s \in 0..MaxStatus :
         net' = [net EXCEPT !.status = s, !.echo = PingId]
    /\ ping' = [PingIdle EXCEPT !.pc = "connect", !.calls = ping.calls + 1]
    /\ UNCHANGED <<req, resp, sen, world>>

\* _, peerInfo, err := connectToRandomPeer(s)
PingConnect ==
    /\ ping.pc = "connect"
    /\ \/ /\ ping' = [Did(ping, "connect", TRUE) EXCEPT !.pc = "newstream"]
          /\ net' = net
       \/ Return(Logged(Did(ping, "connect", FALSE), "Failed to ping request"), net)
    /\ UNCHANGED <<req, resp, sen, world>>

\* stream, err := s.host.NewStream(...); defer stream.Close()
PingNewStream ==
    /\ ping.pc = "newstream"
    /\ \/ /\ ping' = [Did(ping, "newstream", TRUE) EXCEPT
                         !.pc = "write", !.deferred = TRUE]
          /\ net' = [net EXCEPT !.opened = @ + 1]
       \/ Return(Logged(Did(ping, "newstream", FALSE),
                        "failed to create stream to send ping request"), net)
    /\ UNCHANGED <<req, resp, sen, world>>

\* n, err := sc.WritePacket(pingPacket)
PingWritePacket ==
    /\ ping.pc = "write"
    /\ \E n \in {0, PingPacketSize, PingPacketSize + 1}, err \in BOOLEAN :
         IF err
         THEN Return(Logged(Did(ping, "write", FALSE),
                            "failed to write ping request packet"), net)
         ELSE IF n # PingPacketSize
         THEN Return(Logged(Did(ping, "write", FALSE), "wrong ping packet size"), net)
         ELSE /\ ping' = [Did(ping, "write", TRUE) EXCEPT !.pc = "closewrite"]
              /\ net' = net
    /\ UNCHANGED <<req, resp, sen, world>>

\* err = stream.CloseWrite(); an error is logged and the function goes on
PingCloseWrite ==
    /\ ping.pc = "closewrite"
    /\ \E err \in BOOLEAN :
         LET p1 == IF err
                   THEN Logged(Did(ping, "closewrite", FALSE),
                               "fail close ping request write")
                   ELSE Did(ping, "closewrite", TRUE)
         IN  ping' = [Logged(p1, "[Req] sent ping request") EXCEPT !.pc = "readbyte"]
    /\ net' = net
    /\ UNCHANGED <<req, resp, sen, world>>

\* code, err := sc.ReadByte(); an error is logged and the function goes on
\* with whatever byte ReadByte returned beside the error
PingReadByte ==
    /\ ping.pc = "readbyte"
    /\ \E err \in BOOLEAN, junk \in 0..MaxStatus :
         LET code == IF err THEN junk ELSE net.status
             p1 == IF err
                   THEN Logged(Did(ping, "readbyte", FALSE), "fail read response code")
                   ELSE Did(ping, "readbyte", TRUE)
         IN  ping' = [p1 EXCEPT !.code = code,
                                !.pc = IF code = 1 THEN "decode" ELSE "report"]
    /\ net' = net
    /\ UNCHANGED <<req, resp, sen, world>>

\* if code == 1 { pctx, err := sc.Decode(rping) ... }
PingDecode ==
    /\ ping.pc = "decode"
    /\ \/ /\ ping' = [Did(ping, "decode", TRUE) EXCEPT
                         !.rpingId = net.echo, !.pc = "report"]
          /\ net' = net
       \/ Return(Logged(Did(ping, "decode", FALSE), "fail decode ping response"), net)
    /\ UNCHANGED <<req, resp, sen, world>>

\* log.Info("[Resp] received ping response", ...) and the function ends
PingReport ==
    /\ ping.pc = "report"
    /\ Return(Logged(ping, "[Resp] received ping response"), net)
    /\ UNCHANGED <<req, resp, sen, world>>

(***************************************************************************)
(* The Sentinel: New, createListener, Start, RecvGossip, GetPeersCount.    *)
(*                                                                         *)
(* sen holds the Sentinel's fields, the position of a running Start and    *)
(* what its last createListener did; world holds what lives outside the    *)
(* struct: the sockets, listeners, handlers and tasks Start creates, the   *)
(* host's connected peers, the gossip manager's subscriptions, and the     *)
(* last accessor call with what it found.                                  *)
(***************************************************************************)
MaxStarts == 2       \* calls of Start
MaxPeerIds == 2      \* peers that may connect to the host

PeerIds == 1..MaxPeerIds

\* net.ParseIP: the 16-byte form of an IPv4 or IPv6 address text, nil (the
\* empty sequence) for any other text
ParseIP(text) ==
    CASE text = "127.0.0.1" ->
           <<0, 0, 0, 0, 0, 0, 0, 0, 0, 0, 255, 255, 127, 0, 0, 1>>
      [] text = "::1" ->
           <<0, 0, 0, 0, 0, 0, 0, 0, 0, 0, 0, 0, 0, 0, 0, 1>>
      [] OTHER -> <<>>

\* net.IP.To4: the 4-byte form, nil when the address is not an IPv4 address
To4(ip) ==
    IF Len(ip) = 4 THEN ip
    ELSE IF /\ Len(ip) = 16
            /\ \A i \in 1..10 : ip[i] = 0
            /\ ip[11] = 255
            /\ ip[12] = 255
    THEN SubSeq(ip, 13, 16)
    ELSE <<>>

\* net.IP.To16: the 16-byte form, nil when the length is neither 4 nor 16
To16(ip) ==
    IF Len(ip) = 4
    THEN <<0, 0, 0, 0, 0, 0, 0, 0, 0, 0, 255, 255>> \o ip
    ELSE IF Len(ip) = 16 THEN ip
    ELSE <<>>

\* cfg.IpAddr values the model starts a Sentinel with
BindAddrs == {"127.0.0.1", "::1", "localhost", ""}

LightClientFinalityUpdateTopic == "light_client_finality_update"

\* Topic names, by their path segments
FinalityTopic == <<"eth2", "4a26c58b", "light_client_finality_update", "ssz_snappy">>
BlockTopic == <<"eth2", "4a26c58b", "beacon_block", "ssz_snappy">>
Topics == {FinalityTopic, BlockTopic}

\* strings.Contains(topic, name), for a name that is a whole segment
Contains(topic, name) == \E i \in 1..Len(topic) : topic[i] = name

NoSub == [on |-> FALSE, peers |-> {}]

\* An accessor call: the function, whether it found s.subManager set,
\* whether it returned, the value returned, and what there was at the time
\* of the call: the number of the host's peers, whether the finality-update
\* topic was subscribed and the number of that subscription's peers
Access(fn, s, w, v) ==
    [fn |-> fn, mgrSet |-> s.subManager, returned |-> s.subManager,
     value |-> IF s.subManager THEN v ELSE 0,
     hostPeers |-> Cardinality(w.hostPeers),
     finalityOn |-> w.subs[FinalityTopic].on,
     finalityPeers |-> Cardinality(w.subs[FinalityTopic].peers)]

NoAccess == [fn |-> "none", mgrSet |-> FALSE, returned |-> FALSE,
             value |-> 0, hostPeers |-> 0, finalityOn |-> FALSE,
             finalityPeers |-> 0]

NoListen == [ran |-> FALSE, addrErr |-> FALSE, network |-> "none"]

Snapshot(s, w) ==
    [udpOpen |-> w.udpOpen, v5Open |-> w.v5Open, handlers |-> w.handlers,
     tasks |-> w.tasks, managers |-> w.managers]

\* The Sentinel New returns: ctx and cfg set, host and pubsub created, and
\* started, listener, metadataV1 and subManager at their zero values.
NewSentinel(ipAddr) ==
    [cfgIpAddr |-> ipAddr, started |-> FALSE, listener |-> FALSE,
     metadataV1 |-> FALSE, subManager |-> FALSE,
     pc |-> "idle", calls |-> 0, warned |-> FALSE, err |-> "none",
     listen |-> NoListen,
     snap |-> [udpOpen |-> 0, v5Open |-> 0, handlers |-> 0, tasks |-> 0,
               managers |-> 0]]

WorldAfterNew ==
    [udpOpen |-> 0, v5Open |-> 0, handlers |-> 0, tasks |-> 0, managers |-> 0,
     hostPeers |-> {}, subs |-> [t \in Topics |-> NoSub], access |-> NoAccess]

\* No Sentinel yet: New has not been called
NoSentinel == [NewSentinel("") EXCEPT !.pc = "unborn"]

\* New(ctx, cfg) returns a Sentinel
New ==
    /\ sen.pc = "unborn"
    /\ \E a \in BindAddrs : sen' = NewSentinel(a)
    /\ UNCHANGED <<req, resp, ping, net, world>>

\* The outcomes of the calls createListener makes: net.ListenUDP,
\* createLocalNode (enode.OpenDB) and discover.ListenV5.
ListenOutcomes == {"ok", "udp_error", "localnode_error", "listenv5_error"}

\* createListener: [err, listener (non-nil), listen, s, w]
createListener(s, w, outcome) ==
    LET ip == ParseIP(s.cfgIpAddr)
        failed(msg, lst, s1, w1) ==
            [err |-> msg, listener |-> FALSE, listen |-> lst, s |-> s1, w |-> w1]
    IN  IF To4(ip) = <<>>
        THEN failed("IPV4 address not provided",
                    [ran |-> TRUE, addrErr |-> TRUE, network |-> "none"], s, w)
        ELSE LET network ==
                     IF To16(ip) # <<>> /\ To4(ip) = <<>> THEN "udp6"
                     ELSE IF To4(ip) # <<>> THEN "udp4"
                     ELSE "none"
                 lst == [ran |-> TRUE, addrErr |-> network = "none", network |-> network]
                 wConn == [w EXCEPT !.udpOpen = @ + 1]
                 sMeta == [s EXCEPT !.metadataV1 = TRUE]
                 wHandlers == [wConn EXCEPT !.handlers = @ + 1]
             IN  IF network = "none"
                 THEN failed("bad ip address provided", lst, s, w)
                 ELSE IF outcome = "udp_error"
                 THEN failed("listen udp failed", lst, s, w)
                 ELSE IF outcome = "localnode_error"
                 THEN failed("could not open node's peer database", lst, s, wConn)
                 ELSE IF outcome = "listenv5_error"
                 THEN failed("discover.ListenV5 failed", lst, sMeta, wHandlers)
                 ELSE [err |-> nil, listener |-> TRUE, listen |-> lst, s |-> sMeta,
                       w |-> [wHandlers EXCEPT !.v5Open = @ + 1]]

\* Start is called: if s.started { log.Warn("Sentinel already running") },
\* and the function goes on.
StartCall ==
    /\ sen.pc = "idle"
    /\ sen.calls < MaxStarts
    /\ sen' = [sen EXCEPT !.pc = "createListener", !.calls = @ + 1,
                          !.warned = sen.started, !.err = "none",
                          !.listen = NoListen, !.snap = Snapshot(sen, world)]
    /\ UNCHANGED <<req, resp, ping, net, world>>

\* s.listener, err = s.createListener(); if err != nil { return ... }
StartCreateListener ==
    /\ sen.pc = "createListener"
    /\ \E outcome \in ListenOutcomes :
         LET r == createListener(sen, world, outcome)
         IN  /\ sen' = [r.s EXCEPT
                           !.listener = r.listener,
                           !.listen = r.listen,
                           !.err = IF r.err # nil THEN r.err ELSE "none",
                           !.pc = IF r.err # nil THEN "idle" ELSE "connectToBootnodes"]
             /\ world' = r.w
    /\ UNCHANGED <<req, resp, ping, net>>

\* if err := s.connectToBootnodes(); err != nil { return ... }
StartConnectToBootnodes ==
    /\ sen.pc = "connectToBootnodes"
    /\ \E ok \in BOOLEAN :
         sen' = IF ok THEN [sen EXCEPT !.pc = "listenForPeers"]
                ELSE [sen EXCEPT !.pc = "idle",
                                 !.err = "failed to connect to bootnodes"]
    /\ UNCHANGED <<req, resp, ping, net, world>>

\* go s.listenForPeers()
StartListenForPeers ==
    /\ sen.pc = "listenForPeers"
    /\ sen' = [sen EXCEPT !.pc = "newGossipManager"]
    /\ world' = [world EXCEPT !.tasks = @ + 1]
    /\ UNCHANGED <<req, resp, ping, net>>

\* s.subManager = NewGossipManager(s.ctx); return nil
StartNewGossipManager ==
    /\ sen.pc = "newGossipManager"
    /\ sen' = [sen EXCEPT !.pc = "idle", !.subManager = TRUE, !.err = nil]
    /\ world' = [world EXCEPT !.managers = @ + 1,
                              !.subs = [t \in Topics |-> NoSub]]
    /\ UNCHANGED <<req, resp, ping, net>>

\* RecvGossip: return s.subManager.Recv()
RecvGossip ==
    /\ sen.pc # "unborn"
    /\ world' = [world EXCEPT !.access = Access("RecvGossip", sen, world, 0)]
    /\ UNCHANGED <<req, resp, ping, net, sen>>

GetPeersCountValues_HostOnly(w) == { Cardinality(w.hostPeers) }

\* The values GetPeersCount may return: the peers of a subscription whose
\* topic contains the finality-update name (the last one the map iteration
\* visits), the host's peers when there is none.
GetPeersCountValues(w) ==
    LET matching == { t \in Topics :
                        w.subs[t].on /\ Contains(t, LightClientFinalityUpdateTopic) }
    IN  IF matching = {}
        THEN { Cardinality(w.hostPeers) }
        ELSE { Cardinality(w.subs[t].peers) : t \in matching }

\* GetPeersCount; reading s.subManager.subscriptions of a nil manager panics
GetPeersCount ==
    /\ sen.pc # "unborn"
    /\ \E v \in GetPeersCountValues(world) :
         world' = [world EXCEPT !.access = Access("GetPeersCount", sen, world, v)]
    /\ UNCHANGED <<req, resp, ping, net, sen>>

\* A peer connects to the host
PeerConnect ==
    /\ sen.pc # "unborn"
    /\ \E p \in PeerIds \ world.hostPeers :
         world' = [world EXCEPT !.hostPeers = @ \cup {p}]
    /\ UNCHANGED <<req, resp, ping, net, sen>>

\* A peer disconnects and leaves the topics it was in
PeerDisconnect ==
    /\ \E p \in world.hostPeers :
         world' = [world EXCEPT
                      !.hostPeers = @ \ {p},
                      !.subs = [t \in Topics |-> [@[t] EXCEPT !.peers = @ \ {p}]]]
    /\ UNCHANGED <<req, resp, ping, net, sen>>

\* The gossip manager subscribes to a topic
Subscribe ==
    /\ sen.subManager
    /\ \E t \in Topics :
         /\ ~world.subs[t].on
         /\ world' = [world EXCEPT !.subs[t] = [on |-> TRUE, peers |-> {}]]
    /\ UNCHANGED <<req, resp, ping, net, sen>>

\* A connected peer joins or leaves a subscribed topic
TopicPeerChange ==
    /\ \E t \in Topics, p \in world.hostPeers :
         /\ world.subs[t].on
         /\ world' = [world EXCEPT !.subs[t].peers =
                         IF p \in @ THEN @ \ {p} ELSE @ \cup {p}]
    /\ UNCHANGED <<req, resp, ping, net, sen>>

(***************************************************************************)
(* Properties of the /health endpoint.                                     *)
(***************************************************************************)
\* The request is answered in header mode
HeaderMode(r) == EqualFold(r.path, urlPath) /\ HeaderGet(r.headers) # <<>>

\* A header value selects a check
SelectsCheck(value) ==
    \/ ToLower(value) = sSynced
    \/ HasPrefix(ToLower(value), sCheckBlock)
    \/ HasPrefix(ToLower(value), sMinPeerCount)
    \/ HasPrefix(ToLower(value), sMaxSecondsBehind)

\* Every check the request selects passes, each taken on its own. In body
\* mode a check is selected when its field was given in a body that parsed
\* (it is then not reported DISABLED).
AllSelectedPassed(r) ==
    IF HeaderMode(r)
    THEN \A i \in 1..Len(r.headers) :
           SelectsCheck(r.headers[i]) => CheckHeader(r.headers[i], r.env) = nil
    ELSE LET parsed == parseHealthCheckBody(r.body)
         IN  parsed.err = nil =>
               /\ parsed.MinPeerCount # Absent =>
                    checkMinPeers(parsed.MinPeerCount.v, r.env) = nil
               /\ parsed.BlockNumber # Absent =>
                    checkBlockNumber(parsed.BlockNumber.v, r.env) = nil

RequestParsed(r) == HeaderMode(r) \/ parseHealthCheckBody(r.body).err = nil

\* C1 (as claimed): every /health response has status 200 if and only if
\* every selected check passed, and 500 otherwise.
C1_StatusIffSelectedPassed ==
    resp.written =>
        /\ resp.status \in {StatusOK, StatusInternalServerError}
        /\ resp.status = StatusOK <=> AllSelectedPassed(req)

\* C1 (amended): every /health response has status 200 if and only if the
\* request parsed (always in header mode; in body mode the body is valid
\* JSON of the expected shape) and every selected check passed; otherwise
\* the status is 500.
C1_StatusIffParsedAndPassed ==
    resp.written =>
        /\ resp.status \in {StatusOK, StatusInternalServerError}
        /\ resp.status = StatusOK <=> (RequestParsed(req) /\ AllSelectedPassed(req))

\* C1 witness: a body-mode request whose body parsed, with min_peer_count
\* selected and failing and known_block not given, answered with 500.
C1_Witness ==
    /\ resp.written
    /\ ~HeaderMode(req)
    /\ req.body.kind = "object"
    /\ req.body.min_peer_count.k = "num"
    /\ req.body.known_block = Absent
    /\ req.env.peerCount < req.body.min_peer_count.v
    /\ resp.status = StatusInternalServerError
    /\ resp.body.fields.check_block = <<"DISABLED">>

IsCheckStatus(v) ==
    \/ v = <<"HEALTHY">>
    \/ v = <<"DISABLED">>
    \/ (Len(v) = 2 /\ v[1] = "ERROR: ")

\* C2 (as claimed): the body of every /health response is a mapping from
\* check name to HEALTHY, DISABLED or ERROR: <message>, also in header mode:
\* the header min_peer_count5 with 3 peers connected is answered with 500 and
\* a body holding the entry min_peer_count: ERROR: ...
C2_BodyIsCheckMapping ==
    resp.written =>
        /\ resp.body.shape = "json"
        /\ \A name \in DOMAIN resp.body.fields : IsCheckStatus(resp.body.fields[name])
        /\ (/\ HeaderMode(req)
            /\ req.headers = << sMinPeerCount \o <<"5">> >>
            /\ req.env.peerCount = 3)
           => /\ resp.status = StatusInternalServerError
              /\ Len(resp.body.fields.min_peer_count) = 2
              /\ resp.body.fields.min_peer_count[1] = "ERROR: "

\* C9 (as claimed): the header check max_seconds_behind<N> passes exactly
\* when the latest block's timestamp is readable and at most N seconds older
\* than the current time (600 for a negative N), and fails otherwise.
C9_MaxSecondsBehind ==
    (/\ resp.written
     /\ HeaderMode(req)
     /\ Len(req.headers) = 1
     /\ HasPrefix(ToLower(req.headers[1]), sMaxSecondsBehind)
     /\ Atoi(TrimPrefix(ToLower(req.headers[1]), sMaxSecondsBehind)).err = nil
     /\ ~req.env.block.err)
    => LET n == Atoi(TrimPrefix(ToLower(req.headers[1]), sMaxSecondsBehind)).val
           limit == IF n < 0 THEN DefaultSecondsBehind ELSE n
           readable == req.env.block.has /\ req.env.block.typed
       IN  resp.status = StatusOK <=>
             (readable /\ Now - req.env.block.ts <= limit)

(***************************************************************************)
(* Properties of pingRequest.                                              *)
(***************************************************************************)
Performed(name) == \E i \in 1..Len(ping.steps) : ping.steps[i] = name

Reported(msg) == \E i \in 1..Len(ping.log) : ping.log[i] = msg

PingReturned == ping.pc = "idle" /\ ping.calls > 0

\* C3 (as claimed): when the status byte of the response was read, a status
\* of 0 means success: the response frame is decoded and the requester holds
\* the echoed id; with a nonzero status no response frame is decoded and the
\* exchange is not reported as a received response.
C3_StatusZeroIsSuccess ==
    (PingReturned /\ Performed("readbyte") /\ "readbyte" \notin ping.failed) =>
        IF net.status = 0
        THEN /\ Performed("decode")
             /\ "decode" \notin ping.failed => ping.rpingId = net.echo
        ELSE /\ ~Performed("decode")
             /\ ~Reported("[Resp] received ping response")

\* C4: every stream pingRequest opens is closed when pingRequest returns, on
\* every exit path; the only stream open and not closed is the one a running
\* call holds with its deferred Close, and no stream is closed that was not
\* opened.
C4_StreamsReleased ==
    /\ net.closed <= net.opened
    /\ net.opened - net.closed = (IF ping.deferred THEN 1 ELSE 0)
    /\ ping.pc = "idle" => net.closed = net.opened

\* C4 witness: a call that opened a stream and left by the decode-error
\* path has returned, and the stream is closed.
C4_Witness ==
    /\ PingReturned
    /\ "decode" \in ping.failed
    /\ net.opened >= 1
    /\ net.closed = net.opened

\* C7 (as claimed): once a step of the exchange failed, no later step is
\* performed and the exchange is never reported as a received response.
C7_FailedStepEndsExchange ==
    ping.failed # {} =>
        /\ ping.steps[Len(ping.steps)] \in ping.failed
        /\ Cardinality(ping.failed) = 1
        /\ ~Reported("[Resp] received ping response")

(***************************************************************************)
(* Properties of the Sentinel.                                             *)
(***************************************************************************)
\* The configured address is the text of an IPv4 / of an IPv6 address
IsIPv4Text(a) == a = "127.0.0.1"

IsIPv6Text(a) == a = "::1"

\* C5 (as claimed): createListener accepts every bind address that is an
\* IPv4 or an IPv6 address, choosing udp4 for the former and udp6 for the
\* latter, and rejects the address exactly when it is neither.
C5_ListenerAcceptsV4AndV6 ==
    sen.listen.ran =>
        /\ IsIPv4Text(sen.cfgIpAddr) =>
             (~sen.listen.addrErr /\ sen.listen.network = "udp4")
        /\ IsIPv6Text(sen.cfgIpAddr) =>
             (~sen.listen.addrErr /\ sen.listen.network = "udp6")
        /\ sen.listen.addrErr <=>
             ~(IsIPv4Text(sen.cfgIpAddr) \/ IsIPv6Text(sen.cfgIpAddr))

\* Start has returned an error
StartFailed == sen.pc = "idle" /\ sen.calls > 0 /\ sen.err \notin {"none", nil}

\* C6 (as claimed): when Start returns an error nothing it opened or started
\* is left: the open UDP sockets, the discovery listeners, the started
\* stream handlers, the peer-listening tasks and the gossip managers are
\* those there were when Start was called.
C6_FailedStartLeavesNothing ==
    StartFailed =>
        /\ world.udpOpen = sen.snap.udpOpen
        /\ world.v5Open = sen.snap.v5Open
        /\ world.handlers = sen.snap.handlers
        /\ world.tasks = sen.snap.tasks
        /\ world.managers = sen.snap.managers

C10_AccessorsFindManager ==
    world.access.fn # "none" => world.access.mgrSet

\* C11 (as claimed): a Sentinel is started at most once: when Start has
\* returned nil the started flag is true, and a call of Start made after a
\* successful one (the gossip manager existed when it was entered) opens no
\* further UDP socket or discovery listener, launches no further
\* peer-listening task and creates no further gossip manager.
C11_StartedAtMostOnce ==
    /\ (sen.pc = "idle" /\ sen.calls > 0 /\ sen.err = nil) => sen.started
    /\ sen.snap.managers >= 1 =>
         /\ world.udpOpen = sen.snap.udpOpen
         /\ world.v5Open = sen.snap.v5Open
         /\ world.tasks = sen.snap.tasks
         /\ world.managers = sen.snap.managers

\* C11, the second part alone: a Start entered after a successful Start has
\* changed nothing outside the Sentinel.
C11_SecondStartCreatesNothing ==
    sen.snap.managers >= 1 =>
         /\ world.udpOpen = sen.snap.udpOpen
         /\ world.v5Open = sen.snap.v5Open
         /\ world.tasks = sen.snap.tasks
         /\ world.managers = sen.snap.managers

(***************************************************************************)
(* Specifications.                                                         *)
(***************************************************************************)
Init ==
    /\ req = NoReq
    /\ resp = NoResp
    /\ ping = PingIdle
    /\ net = NetIdle
    /\ sen = NoSentinel
    /\ world = WorldAfterNew

NextHealth == AcceptRequest \/ ServeHTTP \/ FinishRequest

SpecHealth == Init /\ [][NextHealth]_vars

NextPing ==
    \/ PingCall
    \/ PingConnect
    \/ PingNewStream
    \/ PingWritePacket
    \/ PingCloseWrite
    \/ PingReadByte
    \/ PingDecode
    \/ PingReport

SpecPing == Init /\ [][NextPing]_vars

NextSentinel ==
    \/ New
    \/ StartCall
    \/ StartCreateListener
    \/ StartConnectToBootnodes
    \/ StartListenForPeers
    \/ StartNewGossipManager
    \/ RecvGossip
    \/ GetPeersCount
    \/ PeerConnect
    \/ PeerDisconnect
    \/ Subscribe
    \/ TopicPeerChange

SpecSentinel == Init /\ [][NextSentinel]_vars

====
